---- MODULE Spec2Model ----
(***************************************************************************)
(* Order book sides (std::set<OrderBookEntry>), the crossed-book resolvers *)
(* truncateOverlapEntriesDex / truncateOverlapEntriesCentralised, and the  *)
(* reference counting of LimitOrder / PyRef over host numeric handles.     *)
(***************************************************************************)
EXTENDS Integers, Sequences, FiniteSets, TLC

\* ---------------------------------------------------------------- bounds
MaxPrice == 2
MaxAmount == 2
MaxUpdateId == 2
MaxCalls == 2
MaxHandle == 1
MaxOrders == 2
MaxPyRefs == 2
MaxCount == 5
Baseline == 1

Prices == 1..MaxPrice
Amounts == 0..MaxAmount
UpdateIds == 1..MaxUpdateId

\* bidBook, askBook   the two sides, each in ascending order of the set
\* pc                 "idle", or "loop" while a resolver call is running
\* fn                 the resolver that runs or ran last
\* askIterator        the resolver's iterator into the ask side
\* callBid, callAsk   the book when the current or last call was entered
\* prevBid, prevAsk   the book before the last step
\* removed            the passes of the current or last call that erased
\* calls              the calls that returned since the last update
\* lastUpd            the update applied by the last step, if it was one
\* dex                the flag truncateOverlapEntries was called with ({d}), if
\*                    the current or last call came through it ({} otherwise)
\* lastRef            the operation on a value object the last step was, if any
\* cmp                two LimitOrders handed to operator<, the implementation
\*                    applied and its answers to a < b and b < a
\* ctor               the arguments handed to a LimitOrder constructor, the
\*                    object it built and what the getters returned
\* stage              the stage testOverlappingOrderBooks is in, 0 outside it
\* pending            the inserts of the stage not yet executed
\* expQueue           a std::set<OrderExpirationEntry>, in order
\* lastExp            the operation last applied to expQueue, if any
\* orders, pyrefs     the LimitOrder and PyRef objects, live or not
\* refcnt             ob_refcnt of every numeric handle
VARIABLES bidBook, askBook, pc, fn, askIterator, callBid, callAsk, prevBid,
          prevAsk, removed, calls, lastUpd, dex, orders, pyrefs, refcnt,
          lastRef, cmp, expQueue, lastExp, stage, pending, ctor

bookVars == <<bidBook, askBook, pc, fn, askIterator, callBid, callAsk,
              prevBid, prevAsk, removed, calls, lastUpd, dex>>

refVars == <<orders, pyrefs, refcnt, lastRef>>

\* what the book operations leave alone, what the object operations leave alone
expVars == <<expQueue, lastExp>>

testVars == <<stage, pending>>

\* what neither the book operations nor the test driver touch
objectVars == <<refVars, cmp, expVars, ctor>>

nonBookVars == <<objectVars, testVars>>

nonRefVars == <<bookVars, cmp, expVars, testVars, ctor>>

nonCmpVars == <<bookVars, refVars, expVars, testVars, ctor>>

nonExpVars == <<bookVars, refVars, cmp, testVars, ctor>>

nonCtorVars == <<bookVars, refVars, cmp, expVars, testVars>>

vars == <<bidBook, askBook, pc, fn, askIterator, callBid, callAsk, prevBid,
          prevAsk, removed, calls, lastUpd, dex, orders, pyrefs, refcnt,
          lastRef, cmp, expQueue, lastExp, stage, pending, ctor>>

\* ------------------------------------------------------- OrderBookEntry
OrderBookEntry(price, amount, updateId) ==
    [price |-> price, amount |-> amount, updateId |-> updateId]

Entries == [price : Prices, amount : Amounts, updateId : UpdateIds]

\* a comparison that also looks at updateId
EntryLessById(a, b) ==
    a.price < b.price \/ (a.price = b.price /\ a.updateId < b.updateId)

\* operator<(OrderBookEntry, OrderBookEntry)
EntryLess(a, b) == a.price < b.price

\* equivalence induced on keys by the comparison of std::set
Equiv(a, b) == ~EntryLess(a, b) /\ ~EntryLess(b, a)

\* ------------------------------------------ std::set<OrderBookEntry>
\* A side is the in-order traversal of the set: a sequence of entries.
RemoveAt(s, i) == [j \in 1..(Len(s) - 1) |-> IF j < i THEN s[j] ELSE s[j + 1]]

\* an insertion at the back, as of a container kept in insertion order
InsertAtBack(s, i, e) == Append(s, e)

\* an insertion that writes over the element at the position
InsertAtOverwrite(s, i, e) ==
    IF i <= Len(s) THEN [s EXCEPT ![i] = e] ELSE Append(s, e)

InsertAt(s, i, e) ==
    [j \in 1..(Len(s) + 1) |-> IF j < i THEN s[j] ELSE IF j = i THEN e ELSE s[j - 1]]

\* lower_bound: first position whose element is not less than e
LowerBound(s, e) ==
    IF \E i \in 1..Len(s) : ~EntryLess(s[i], e)
    THEN CHOOSE i \in 1..Len(s) :
             /\ ~EntryLess(s[i], e)
             /\ \A j \in 1..(i - 1) : EntryLess(s[j], e)
    ELSE Len(s) + 1

\* find: position of the element equivalent to e, 0 for end()
SetFind(s, e) ==
    LET i == LowerBound(s, e)
    IN  IF i <= Len(s) /\ ~EntryLess(e, s[i]) THEN i ELSE 0

\* insert: a no-op when an equivalent element is present
SetInsert(s, e) ==
    IF SetFind(s, e) # 0 THEN s ELSE InsertAt(s, LowerBound(s, e), e)

\* erase by key
SetErase(s, e) ==
    IF SetFind(s, e) = 0 THEN s ELSE RemoveAt(s, SetFind(s, e))

\* --------------------------------------------------------- iterators
\* An iterator of the ask side designates a node; nodes are named by the
\* price they hold.  End stands for end().
End == 0

Begin(s) == IF Len(s) = 0 THEN End ELSE s[1].price

Holds(s, it) == \E i \in 1..Len(s) : s[i].price = it

IndexOf(s, it) == CHOOSE i \in 1..Len(s) : s[i].price = it

\* ++it
Successor(s, it) ==
    IF Holds(s, it) /\ IndexOf(s, it) < Len(s) THEN s[IndexOf(s, it) + 1].price ELSE End

\* *it: reading through an iterator whose node is gone is undefined, any
\* entry may be read
Deref(s, it) == IF Holds(s, it) THEN {s[IndexOf(s, it)]} ELSE Entries

\* the amount of the node set to 0 and the node left in the set
EraseIterZero(s, it) ==
    IF Holds(s, it) THEN [s EXCEPT ![IndexOf(s, it)].amount = 0] ELSE s

\* erase(it)
EraseIter(s, it) == IF Holds(s, it) THEN RemoveAt(s, IndexOf(s, it)) ELSE s

\* *bidIterator with bidIterator == rbegin(): the element before end()
TopBid(s) == s[Len(s)]

NoUpd == [op |-> "none"]

\* the call did not come through truncateOverlapEntries
NoDex == {}

\* ------------------------------------------------------------- Init
InitBook ==
    /\ bidBook = <<>>
    /\ askBook = <<>>
    /\ pc = "idle"
    /\ fn = "none"
    /\ askIterator = End
    /\ callBid = <<>>
    /\ callAsk = <<>>
    /\ prevBid = <<>>
    /\ prevAsk = <<>>
    /\ removed = <<>>
    /\ calls = <<>>
    /\ lastUpd = NoUpd
    /\ dex = NoDex

\* --------------------------------------------------------- updates
ResetCall ==
    /\ fn' = "none"
    /\ callBid' = <<>>
    /\ callAsk' = <<>>
    /\ prevBid' = bidBook
    /\ prevAsk' = askBook
    /\ removed' = <<>>
    /\ calls' = <<>>
    /\ dex' = NoDex
    /\ UNCHANGED <<pc, askIterator>>

\* bidsBook.insert(OrderBookEntry(price, amount, updateId)), on the book
InsertBook(side, price, amount, updateId) ==
    /\ pc = "idle"
    /\ IF side = "bid"
       THEN /\ bidBook' = SetInsert(bidBook, OrderBookEntry(price, amount, updateId))
            /\ UNCHANGED askBook
       ELSE /\ askBook' = SetInsert(askBook, OrderBookEntry(price, amount, updateId))
            /\ UNCHANGED bidBook
    /\ lastUpd' = [op |-> "insert", side |-> side, price |-> price,
                   amount |-> amount, updateId |-> updateId]
    /\ ResetCall

\* bidsBook.insert(OrderBookEntry(price, amount, updateId))
Insert(side, price, amount, updateId) ==
    /\ InsertBook(side, price, amount, updateId)
    /\ UNCHANGED nonBookVars

\* an insertOrUpdate that stores whatever amount it is given
InsertOrUpdateSideStore(s, e) == SetInsert(SetErase(s, e), e)

\* insertOrUpdate(side, price, amount, updateId)
InsertOrUpdateSide(s, e) ==
    IF e.amount = 0 THEN SetErase(s, e) ELSE SetInsert(SetErase(s, e), e)

InsertOrUpdate(side, price, amount, updateId) ==
    /\ pc = "idle"
    /\ IF side = "bid"
       THEN /\ bidBook' = InsertOrUpdateSide(bidBook, OrderBookEntry(price, amount, updateId))
            /\ UNCHANGED askBook
       ELSE /\ askBook' = InsertOrUpdateSide(askBook, OrderBookEntry(price, amount, updateId))
            /\ UNCHANGED bidBook
    /\ lastUpd' = [op |-> "insertOrUpdate", side |-> side, price |-> price,
                   amount |-> amount, updateId |-> updateId]
    /\ ResetCall
    /\ UNCHANGED nonBookVars

\* ------------------------------------------------------- resolvers
\* lines 41-42 / 62-63: the two iterators are taken
Enter(f) ==
    /\ Len(calls) < MaxCalls
    /\ pc' = "loop"
    /\ fn' = f
    /\ askIterator' = Begin(askBook)
    /\ callBid' = bidBook
    /\ callAsk' = askBook
    /\ prevBid' = bidBook
    /\ prevAsk' = askBook
    /\ removed' = <<>>
    /\ lastUpd' = NoUpd
    /\ UNCHANGED <<bidBook, askBook, calls>>

\* truncateOverlapEntriesDex(bidBook, askBook) is entered
truncateOverlapEntriesDex ==
    /\ pc = "idle"
    /\ Enter("Dex")
    /\ dex' = NoDex
    /\ UNCHANGED nonBookVars

\* truncateOverlapEntriesCentralised(bidBook, askBook) is entered
truncateOverlapEntriesCentralised ==
    /\ pc = "idle"
    /\ Enter("Centralised")
    /\ dex' = NoDex
    /\ UNCHANGED nonBookVars

\* the values of the flag tried: zero, positive, negative
DexFlags == {0 - 1, 0, 1}

\* the branch taken with the test dex == 0 in place of dex != 0
DispatchInverted(d) == IF d = 0 THEN "Dex" ELSE "Centralised"

\* lines 33-37: the resolver the flag selects
Dispatch(d) == IF d # 0 THEN "Dex" ELSE "Centralised"

\* truncateOverlapEntries(bidBook, askBook, dex) is entered
truncateOverlapEntries(d) ==
    /\ pc = "idle"
    /\ Enter(Dispatch(d))
    /\ dex' = {d}
    /\ UNCHANGED nonBookVars

\* the notional comparison with >= in place of >
DexEraseAskGeq(topBid, topAsk) ==
    topBid.amount * topBid.price >= topAsk.amount * topAsk.price

\* the tie-break comparison of line 47 (Dex)
DexEraseAsk(topBid, topAsk) ==
    topBid.amount * topBid.price > topAsk.amount * topAsk.price

\* the recency comparison with >= in place of >
CentralisedEraseAskGeq(topBid, topAsk) == topBid.updateId >= topAsk.updateId

\* the tie-break comparison of line 68 (Centralised)
CentralisedEraseAsk(topBid, topAsk) == topBid.updateId > topAsk.updateId

EraseAsk(f, topBid, topAsk) ==
    IF f = "Dex" THEN DexEraseAsk(topBid, topAsk) ELSE CentralisedEraseAsk(topBid, topAsk)

\* the while condition of line 43 / 64
LoopCond == Len(bidBook) # 0 /\ askIterator # End

\* the crossing test turned around
CrossedInverted(topBid, topAsk) == topBid.price <= topAsk.price

\* the crossing test with > in place of >=
CrossedStrict(topBid, topAsk) == topBid.price > topAsk.price

\* the crossing test of line 46 / 67
Crossed(topBid, topAsk) == topBid.price >= topAsk.price

Return ==
    /\ pc' = "idle"
    /\ askIterator' = End
    /\ calls' = Append(calls, [fn |-> fn, removed |-> Len(removed)])
    /\ UNCHANGED <<bidBook, askBook, fn, callBid, callAsk, removed, lastUpd, dex>>

\* askBook.erase(askIterator) with the iterator left on the erased node
EraseAskDangling(topBid, topAsk) ==
    /\ askIterator' = askIterator
    /\ askBook' = EraseIter(askBook, askIterator)
    /\ removed' = Append(removed, [side |-> "ask", topBid |-> topBid, topAsk |-> topAsk])
    /\ UNCHANGED bidBook

\* askBook.erase(askIterator++)
EraseAskStep(topBid, topAsk) ==
    /\ askIterator' = Successor(askBook, askIterator)
    /\ askBook' = EraseIter(askBook, askIterator)
    /\ removed' = Append(removed, [side |-> "ask", topBid |-> topBid, topAsk |-> topAsk])
    /\ UNCHANGED bidBook

\* the bid erased together with the ask it crossed
EraseBidAndAsk(topBid, topAsk) ==
    /\ bidBook' = RemoveAt(bidBook, Len(bidBook))
    /\ askIterator' = Successor(askBook, askIterator)
    /\ askBook' = EraseIter(askBook, askIterator)
    /\ removed' = Append(removed, [side |-> "bid", topBid |-> topBid, topAsk |-> topAsk])

\* bidBook.erase(std::next(bidIterator).base())
EraseBidStep(topBid, topAsk) ==
    /\ bidBook' = RemoveAt(bidBook, Len(bidBook))
    /\ removed' = Append(removed, [side |-> "bid", topBid |-> topBid, topAsk |-> topAsk])
    /\ UNCHANGED <<askBook, askIterator>>

\* an if in place of the while: the call returns after its first erasure
LoopStepIf ==
    /\ pc = "loop"
    /\ prevBid' = bidBook
    /\ prevAsk' = askBook
    /\ UNCHANGED nonBookVars
    /\ IF ~LoopCond
       THEN Return
       ELSE \E topAsk \in Deref(askBook, askIterator) :
              LET topBid == TopBid(bidBook)
              IN  IF Crossed(topBid, topAsk)
                  THEN /\ IF EraseAsk(fn, topBid, topAsk)
                          THEN /\ askBook' = EraseIter(askBook, askIterator)
                               /\ UNCHANGED bidBook
                          ELSE /\ bidBook' = RemoveAt(bidBook, Len(bidBook))
                               /\ UNCHANGED askBook
                       /\ removed' = Append(removed, [side |-> "any", topBid |-> topBid,
                                                      topAsk |-> topAsk])
                       /\ pc' = "idle"
                       /\ askIterator' = End
                       /\ calls' = Append(calls, [fn |-> fn, removed |-> 1])
                       /\ UNCHANGED <<fn, callBid, callAsk, lastUpd, dex>>
                  ELSE Return

\* one pass through the while loop, lines 43-58 / 64-79, on the book
Pass ==
    /\ pc = "loop"
    /\ prevBid' = bidBook
    /\ prevAsk' = askBook
    /\ IF ~LoopCond
       THEN Return
       ELSE \E topAsk \in Deref(askBook, askIterator) :
              LET topBid == TopBid(bidBook)
              IN  IF Crossed(topBid, topAsk)
                  THEN /\ IF EraseAsk(fn, topBid, topAsk)
                          THEN EraseAskStep(topBid, topAsk)
                          ELSE EraseBidStep(topBid, topAsk)
                       /\ UNCHANGED <<pc, fn, callBid, callAsk, calls, lastUpd, dex>>
                  ELSE Return

\* one pass through the while loop, lines 43-58 / 64-79
LoopStep ==
    /\ Pass
    /\ UNCHANGED nonBookVars

\* the whole loop as a function of the book it is entered with: the book it
\* leaves and the entries it erases, in order
RECURSIVE Resolve(_, _, _, _)
Resolve(f, bids, asks, log) ==
    IF Len(bids) = 0 \/ Len(asks) = 0
    THEN [bids |-> bids, asks |-> asks, log |-> log]
    ELSE LET topBid == TopBid(bids)
             topAsk == asks[1]
         IN  IF Crossed(topBid, topAsk)
             THEN IF EraseAsk(f, topBid, topAsk)
                  THEN Resolve(f, bids, Tail(asks),
                               Append(log, [side |-> "ask", entry |-> topAsk]))
                  ELSE Resolve(f, SubSeq(bids, 1, Len(bids) - 1), asks,
                               Append(log, [side |-> "bid", entry |-> topBid]))
             ELSE [bids |-> bids, asks |-> asks, log |-> log]

NextBook ==
    \/ \E side \in {"bid", "ask"}, price \in Prices, amount \in 1..MaxAmount,
          updateId \in UpdateIds : Insert(side, price, amount, updateId)
    \/ \E side \in {"bid", "ask"}, price \in Prices, amount \in Amounts,
          updateId \in UpdateIds : InsertOrUpdate(side, price, amount, updateId)
    \/ truncateOverlapEntriesDex
    \/ truncateOverlapEntriesCentralised
    \/ \E d \in DexFlags : truncateOverlapEntries(d)
    \/ LoopStep

\* bidsBook.insert(OrderBookEntry(price, amount, updateId)) executed by
\* another thread between two passes of a running resolver call; the call's
\* iterators stay where they are (std::set::insert invalidates none).  One
\* such insert is followed, in the first call after an update.
InterleavedInsert(side, price, amount, updateId) ==
    /\ pc = "loop"
    /\ lastUpd = NoUpd
    /\ calls = <<>>
    /\ IF side = "bid"
       THEN /\ bidBook' = SetInsert(bidBook, OrderBookEntry(price, amount, updateId))
            /\ UNCHANGED askBook
       ELSE /\ askBook' = SetInsert(askBook, OrderBookEntry(price, amount, updateId))
            /\ UNCHANGED bidBook
    /\ lastUpd' = [op |-> "insert", side |-> side, price |-> price,
                   amount |-> amount, updateId |-> updateId]
    /\ prevBid' = bidBook
    /\ prevAsk' = askBook
    /\ UNCHANGED <<pc, fn, askIterator, callBid, callAsk, removed, calls, dex>>
    /\ UNCHANGED nonBookVars

NextInterleaved ==
    \/ NextBook
    \/ \E side \in {"bid", "ask"}, price \in Prices, amount \in 1..MaxAmount,
          updateId \in UpdateIds : InterleavedInsert(side, price, amount, updateId)

\* ------------------------------------------ testOverlappingOrderBooks
\* Prices are in hundredths and amounts in tenths, so that the test's decimal
\* literals are integers.  The inserts of a stage are executed in any order,
\* the order of the test among them; the resolver call ends the stage.
TestInsert(side, price, amount, updateId) ==
    [side |-> side, price |-> price, amount |-> amount, updateId |-> updateId]

FirstStage == 2

LastStage == 4

StageInserts(n) ==
    IF n = 2
    THEN {TestInsert("bid", 10000, 10, 1), TestInsert("bid", 9990, 20, 1),
          TestInsert("bid", 9980, 40, 1)}
    ELSE IF n = 3
    THEN {TestInsert("bid", 10000, 40, 2), TestInsert("bid", 10010, 20, 2),
          TestInsert("bid", 10090, 15, 2), TestInsert("bid", 10100, 1, 2),
          TestInsert("ask", 10500, 1000, 2), TestInsert("ask", 10400, 500, 2),
          TestInsert("ask", 10300, 200, 3), TestInsert("ask", 10200, 100, 3),
          TestInsert("ask", 10091, 10, 3)}
    ELSE {TestInsert("bid", 10091, 30, 3), TestInsert("ask", 10089, 10, 4),
          TestInsert("ask", 10088, 8, 4), TestInsert("ask", 10086, 7, 4),
          TestInsert("bid", 10087, 11, 5)}

\* outside the test
TestOff ==
    /\ stage = 0
    /\ pending = {}

InitTest ==
    /\ stage = FirstStage
    /\ pending = StageInserts(FirstStage)

\* one insert statement of the stage
StageInsert ==
    \E u \in pending :
        /\ InsertBook(u.side, u.price, u.amount, u.updateId)
        /\ pending' = pending \ {u}
        /\ UNCHANGED stage
        /\ UNCHANGED objectVars

\* truncateOverlapEntriesCentralised(bidsBook, asksBook) of the stage is entered
StageResolve ==
    /\ stage # 0
    /\ pending = {}
    /\ pc = "idle"
    /\ calls = <<>>
    /\ Enter("Centralised")
    /\ dex' = NoDex
    /\ UNCHANGED testVars
    /\ UNCHANGED objectVars

\* one pass of the loop of that call
StagePass ==
    /\ stage # 0
    /\ Pass
    /\ UNCHANGED testVars
    /\ UNCHANGED objectVars

\* the call has returned: on to the inserts of the next stage
NextStage ==
    /\ stage # 0
    /\ stage < LastStage
    /\ pending = {}
    /\ pc = "idle"
    /\ calls # <<>>
    /\ stage' = stage + 1
    /\ pending' = StageInserts(stage + 1)
    /\ UNCHANGED bookVars
    /\ UNCHANGED objectVars

NextTest ==
    \/ StageInsert
    \/ StageResolve
    \/ StagePass
    \/ NextStage

\* ------------------------------------------- PyObject reference counts
\* Numeric handles are PyObject*; NULL is the null pointer.  The host keeps
\* Baseline references of its own on every handle.
NULL == 0

Handles == 1..MaxHandle

Pointers == Handles \cup {NULL}

Dead == [live |-> FALSE]

\* Py_XINCREF(p)
Py_XINCREF(rc, p) == IF p = NULL THEN rc ELSE [rc EXCEPT ![p] = @ + 1]

\* Py_XDECREF(p)
Py_XDECREF(rc, p) == IF p = NULL THEN rc ELSE [rc EXCEPT ![p] = @ - 1]

InitRef ==
    /\ orders = [o \in 1..MaxOrders |-> Dead]
    /\ pyrefs = [r \in 1..MaxPyRefs |-> Dead]
    /\ refcnt = [h \in Handles |-> Baseline]
    /\ lastRef = "none"

\* the counter of a handle stays within the explored range
Capped(rc) == \A h \in Handles : rc[h] <= MaxCount

LimitOrderObj(price, quantity, filledQuantity) ==
    [live |-> TRUE, price |-> price, quantity |-> quantity,
     filledQuantity |-> filledQuantity]

\* LimitOrder::LimitOrder()
LimitOrderDefault(o) ==
    /\ ~orders[o].live
    /\ orders' = [orders EXCEPT ![o] = LimitOrderObj(NULL, NULL, NULL)]
    /\ UNCHANGED <<pyrefs, refcnt>>
    /\ lastRef' = "LimitOrderDefault"
    /\ UNCHANGED nonRefVars

\* LimitOrder::LimitOrder(clientOrderID, ..., price, quantity)
LimitOrder7(o, price, quantity) ==
    /\ ~orders[o].live
    /\ orders' = [orders EXCEPT ![o] = LimitOrderObj(price, quantity, NULL)]
    /\ refcnt' = Py_XINCREF(Py_XINCREF(refcnt, price), quantity)
    /\ Capped(refcnt')
    /\ UNCHANGED pyrefs
    /\ lastRef' = "LimitOrder7"
    /\ UNCHANGED nonRefVars

\* LimitOrder::LimitOrder(clientOrderID, ..., price, quantity, filledQuantity, ...)
LimitOrderFull(o, price, quantity, filledQuantity) ==
    /\ ~orders[o].live
    /\ orders' = [orders EXCEPT ![o] = LimitOrderObj(price, quantity, filledQuantity)]
    /\ refcnt' = Py_XINCREF(Py_XINCREF(Py_XINCREF(refcnt, price), quantity), filledQuantity)
    /\ Capped(refcnt')
    /\ UNCHANGED pyrefs
    /\ lastRef' = "LimitOrderFull"
    /\ UNCHANGED nonRefVars

\* a copy constructor that copies the three pointers and takes no reference
LimitOrderCopyShallow(o, other) ==
    /\ ~orders[o].live
    /\ orders[other].live
    /\ orders' = [orders EXCEPT ![o] = orders[other]]
    /\ UNCHANGED <<pyrefs, refcnt>>
    /\ lastRef' = "LimitOrderCopy"
    /\ UNCHANGED nonRefVars

\* LimitOrder::LimitOrder(const LimitOrder &other)
LimitOrderCopy(o, other) ==
    /\ ~orders[o].live
    /\ orders[other].live
    /\ orders' = [orders EXCEPT ![o] = orders[other]]
    /\ refcnt' = Py_XINCREF(Py_XINCREF(Py_XINCREF(refcnt, orders[other].price),
                                       orders[other].quantity),
                            orders[other].filledQuantity)
    /\ Capped(refcnt')
    /\ UNCHANGED pyrefs
    /\ lastRef' = "LimitOrderCopy"
    /\ UNCHANGED nonRefVars

\* LimitOrder::~LimitOrder()
LimitOrderDestroy(o) ==
    /\ orders[o].live
    /\ refcnt' = Py_XDECREF(Py_XDECREF(Py_XDECREF(refcnt, orders[o].price),
                                       orders[o].quantity),
                            orders[o].filledQuantity)
    /\ orders' = [orders EXCEPT ![o] = Dead]
    /\ UNCHANGED pyrefs
    /\ lastRef' = "LimitOrderDestroy"
    /\ UNCHANGED nonRefVars

\* LimitOrder::operator=(const LimitOrder &other); o = other is self-assignment
LimitOrderAssign(o, other) ==
    /\ orders[o].live
    /\ orders[other].live
    /\ orders' = [orders EXCEPT ![o] = orders[other]]
    /\ refcnt' = Py_XINCREF(Py_XINCREF(Py_XINCREF(refcnt, orders[other].price),
                                       orders[other].quantity),
                            orders[other].filledQuantity)
    /\ Capped(refcnt')
    /\ UNCHANGED pyrefs
    /\ lastRef' = "LimitOrderAssign"
    /\ UNCHANGED nonRefVars

PyRefObj(obj) == [live |-> TRUE, obj |-> obj]

\* PyRef::PyRef()
PyRefDefault(r) ==
    /\ ~pyrefs[r].live
    /\ pyrefs' = [pyrefs EXCEPT ![r] = PyRefObj(NULL)]
    /\ UNCHANGED <<orders, refcnt>>
    /\ lastRef' = "PyRefDefault"
    /\ UNCHANGED nonRefVars

\* PyRef::PyRef(PyObject *obj)
PyRefFrom(r, obj) ==
    /\ ~pyrefs[r].live
    /\ pyrefs' = [pyrefs EXCEPT ![r] = PyRefObj(obj)]
    /\ refcnt' = Py_XINCREF(refcnt, obj)
    /\ Capped(refcnt')
    /\ UNCHANGED orders
    /\ lastRef' = "PyRefFrom"
    /\ UNCHANGED nonRefVars

\* PyRef::PyRef(const PyRef &other)
PyRefCopy(r, other) ==
    /\ ~pyrefs[r].live
    /\ pyrefs[other].live
    /\ pyrefs' = [pyrefs EXCEPT ![r] = pyrefs[other]]
    /\ refcnt' = Py_XINCREF(refcnt, pyrefs[other].obj)
    /\ Capped(refcnt')
    /\ UNCHANGED orders
    /\ lastRef' = "PyRefCopy"
    /\ UNCHANGED nonRefVars

\* PyRef::~PyRef()
PyRefDestroy(r) ==
    /\ pyrefs[r].live
    /\ refcnt' = Py_XDECREF(refcnt, pyrefs[r].obj)
    /\ pyrefs' = [pyrefs EXCEPT ![r] = Dead]
    /\ UNCHANGED orders
    /\ lastRef' = "PyRefDestroy"
    /\ UNCHANGED nonRefVars

\* PyRef::operator=(const PyRef &other)
PyRefAssign(r, other) ==
    /\ pyrefs[r].live
    /\ pyrefs[other].live
    /\ pyrefs' = [pyrefs EXCEPT ![r] = pyrefs[other]]
    /\ refcnt' = Py_XINCREF(refcnt, pyrefs[other].obj)
    /\ Capped(refcnt')
    /\ UNCHANGED orders
    /\ lastRef' = "PyRefAssign"
    /\ UNCHANGED nonRefVars

NextRef ==
    \/ \E o \in 1..MaxOrders : LimitOrderDefault(o)
    \/ \E o \in 1..MaxOrders, p, q \in Pointers : LimitOrder7(o, p, q)
    \/ \E o \in 1..MaxOrders, p, q, f \in Pointers : LimitOrderFull(o, p, q, f)
    \/ \E o, other \in 1..MaxOrders : LimitOrderCopy(o, other)
    \/ \E o \in 1..MaxOrders : LimitOrderDestroy(o)
    \/ \E o, other \in 1..MaxOrders : LimitOrderAssign(o, other)
    \/ \E r \in 1..MaxPyRefs : PyRefDefault(r)
    \/ \E r \in 1..MaxPyRefs, obj \in Pointers : PyRefFrom(r, obj)
    \/ \E r, other \in 1..MaxPyRefs : PyRefCopy(r, other)
    \/ \E r \in 1..MaxPyRefs : PyRefDestroy(r)
    \/ \E r, other \in 1..MaxPyRefs : PyRefAssign(r, other)

\* ------------------------------------------------- LimitOrder operator<
\* A std::string is a sequence of characters 1..MaxChar; the price objects
\* are numbers the host compares as numbers.
MaxChar == 2

MaxIdLen == 2

MaxOrderPrice == 2

Chars == 1..MaxChar

Strings == UNION {[1..n -> Chars] : n \in 0..MaxIdLen}

\* std::string operator<: lexicographic, a proper prefix is smaller
RECURSIVE StringLess(_, _)
StringLess(s, t) ==
    IF Len(t) = 0 THEN FALSE
    ELSE IF Len(s) = 0 THEN TRUE
    ELSE IF s[1] # t[1] THEN s[1] < t[1]
    ELSE StringLess(Tail(s), Tail(t))

\* PyObject_RichCompareBool(x, y, op) on two numbers: 1 or 0
PyObject_RichCompareBool(x, y, op) ==
    IF op = "Py_EQ" THEN (IF x = y THEN 1 ELSE 0)
                    ELSE (IF x < y THEN 1 ELSE 0)

\* the cast (bool) of an int
Bool(i) == i # 0

\* the LimitOrders compared: the fields operator< reads
ComparedOrders == [clientOrderID : Strings, price : 1..MaxOrderPrice]

\* hummingbot/core/cpp/LimitOrder.cpp, operator<, on the answers eq and lt of
\* the two calls of PyObject_RichCompareBool
LimitOrderLessGiven(eq, lt, a, b) ==
    IF Bool(eq)
    THEN StringLess(a.clientOrderID, b.clientOrderID)
    ELSE Bool(lt)

\* hummingbot/core/cpp/LimitOrder.cpp, operator<
LimitOrderLess(a, b) ==
    LimitOrderLessGiven(PyObject_RichCompareBool(a.price, b.price, "Py_EQ"),
                        PyObject_RichCompareBool(a.price, b.price, "Py_LT"), a, b)

\* wings/cpp/LimitOrder.cpp, operator<, on the answer lt of the call of
\* PyObject_RichCompareBool
WingsLimitOrderLessGiven(lt, a, b) == Bool(lt)

\* wings/cpp/LimitOrder.cpp, operator<
WingsLimitOrderLess(a, b) ==
    WingsLimitOrderLessGiven(PyObject_RichCompareBool(a.price, b.price, "Py_LT"), a, b)

\* no comparison in progress
CmpOff == [pc |-> "off"]

InitCmp ==
    cmp \in {[pc |-> "ready", a |-> a, b |-> b] : a, b \in ComparedOrders}

\* a < b and b < a are evaluated with operator< of hummingbot/core/cpp
CompareCore ==
    /\ cmp.pc = "ready"
    /\ cmp' = [pc |-> "done", a |-> cmp.a, b |-> cmp.b, impl |-> "core",
               ab |-> LimitOrderLess(cmp.a, cmp.b),
               ba |-> LimitOrderLess(cmp.b, cmp.a)]
    /\ UNCHANGED nonCmpVars

\* a < b and b < a are evaluated with operator< of wings/cpp
CompareWings ==
    /\ cmp.pc = "ready"
    /\ cmp' = [pc |-> "done", a |-> cmp.a, b |-> cmp.b, impl |-> "wings",
               ab |-> WingsLimitOrderLess(cmp.a, cmp.b),
               ba |-> WingsLimitOrderLess(cmp.b, cmp.a)]
    /\ UNCHANGED nonCmpVars

NextCmp ==
    \/ CompareCore
    \/ CompareWings

\* what PyObject_RichCompareBool can return: true, false, or -1 when the
\* comparison of the two objects raised
HostAnswers == {0 - 1, 0, 1}

\* the host's answers to price(a) == price(b), price(a) < price(b) and the
\* same two questions about (b, a)
HostOutcomes == [eqab : HostAnswers, ltab : HostAnswers,
                 eqba : HostAnswers, ltba : HostAnswers]

InitHost ==
    cmp \in {[pc |-> "ready", a |-> a, b |-> b, host |-> h] :
                a, b \in ComparedOrders, h \in HostOutcomes}

\* a < b and b < a are evaluated with operator< of hummingbot/core/cpp, the
\* host answering as cmp.host says
CompareCoreHost ==
    /\ cmp.pc = "ready"
    /\ cmp' = [pc |-> "done", a |-> cmp.a, b |-> cmp.b, impl |-> "core",
               host |-> cmp.host,
               ab |-> LimitOrderLessGiven(cmp.host.eqab, cmp.host.ltab, cmp.a, cmp.b),
               ba |-> LimitOrderLessGiven(cmp.host.eqba, cmp.host.ltba, cmp.b, cmp.a)]
    /\ UNCHANGED nonCmpVars

\* a < b and b < a are evaluated with operator< of wings/cpp, the host
\* answering as cmp.host says
CompareWingsHost ==
    /\ cmp.pc = "ready"
    /\ cmp' = [pc |-> "done", a |-> cmp.a, b |-> cmp.b, impl |-> "wings",
               host |-> cmp.host,
               ab |-> WingsLimitOrderLessGiven(cmp.host.ltab, cmp.a, cmp.b),
               ba |-> WingsLimitOrderLessGiven(cmp.host.ltba, cmp.b, cmp.a)]
    /\ UNCHANGED nonCmpVars

NextHost ==
    \/ CompareCoreHost
    \/ CompareWingsHost

\* ------------------------------------------- LimitOrder constructors
\* The fields a constructor binds; the reference counting of the three
\* handles is followed in the section on reference counts.
CtorArguments ==
    [clientOrderID : {"", "id"}, tradingPair : {"", "pair"}, isBuy : BOOLEAN,
     baseCurrency : {"", "base"}, quoteCurrency : {"", "quote"},
     price : Pointers, quantity : Pointers, filledQuantity : Pointers,
     creationTimestamp : {0, 1}, status : {0, 1}, position : {"NIL", "OPEN"}]

\* LimitOrder::LimitOrder()
LimitOrderDefaultFields ==
    [clientOrderID |-> "", tradingPair |-> "", isBuy |-> FALSE,
     baseCurrency |-> "", quoteCurrency |-> "",
     price |-> NULL, quantity |-> NULL, filledQuantity |-> NULL,
     creationTimestamp |-> 0, status |-> 0, position |-> "NIL"]

\* a 7-argument constructor that leaves filledQuantity and position as given
LimitOrder7FieldsPartial(a) ==
    [clientOrderID |-> a.clientOrderID, tradingPair |-> a.tradingPair,
     isBuy |-> a.isBuy, baseCurrency |-> a.baseCurrency,
     quoteCurrency |-> a.quoteCurrency, price |-> a.price,
     quantity |-> a.quantity, filledQuantity |-> a.filledQuantity,
     creationTimestamp |-> 0, status |-> 0, position |-> a.position]

\* LimitOrder::LimitOrder(clientOrderID, tradingPair, isBuy, baseCurrency,
\* quoteCurrency, price, quantity)
LimitOrder7Fields(a) ==
    [clientOrderID |-> a.clientOrderID, tradingPair |-> a.tradingPair,
     isBuy |-> a.isBuy, baseCurrency |-> a.baseCurrency,
     quoteCurrency |-> a.quoteCurrency, price |-> a.price,
     quantity |-> a.quantity, filledQuantity |-> NULL,
     creationTimestamp |-> 0, status |-> 0, position |-> "NIL"]

\* LimitOrder::LimitOrder(clientOrderID, ..., filledQuantity,
\* creationTimestamp, status, position)
LimitOrderFullFields(a) ==
    [clientOrderID |-> a.clientOrderID, tradingPair |-> a.tradingPair,
     isBuy |-> a.isBuy, baseCurrency |-> a.baseCurrency,
     quoteCurrency |-> a.quoteCurrency, price |-> a.price,
     quantity |-> a.quantity, filledQuantity |-> a.filledQuantity,
     creationTimestamp |-> a.creationTimestamp, status |-> a.status,
     position |-> a.position]

\* the eleven getters applied to an object
Getters(obj) ==
    [getClientOrderID |-> obj.clientOrderID, getTradingPair |-> obj.tradingPair,
     getIsBuy |-> obj.isBuy, getBaseCurrency |-> obj.baseCurrency,
     getQuoteCurrency |-> obj.quoteCurrency, getPrice |-> obj.price,
     getQuantity |-> obj.quantity, getFilledQuantity |-> obj.filledQuantity,
     getCreationTimestamp |-> obj.creationTimestamp, getStatus |-> obj.status,
     getPosition |-> obj.position]

\* no constructor call in progress
CtorOff == [pc |-> "off"]

InitCtor == ctor \in {[pc |-> "args", args |-> a] : a \in CtorArguments}

\* the object a constructor has built
Built(which, obj) ==
    [pc |-> "built", args |-> ctor.args, which |-> which, obj |-> obj]

ConstructDefault ==
    /\ ctor.pc = "args"
    /\ ctor' = Built("default", LimitOrderDefaultFields)
    /\ UNCHANGED nonCtorVars

Construct7 ==
    /\ ctor.pc = "args"
    /\ ctor' = Built("seven", LimitOrder7Fields(ctor.args))
    /\ UNCHANGED nonCtorVars

ConstructFull ==
    /\ ctor.pc = "args"
    /\ ctor' = Built("full", LimitOrderFullFields(ctor.args))
    /\ UNCHANGED nonCtorVars

\* every getter is called on the object built
ReadGetters ==
    /\ ctor.pc = "built"
    /\ ctor' = [pc |-> "read", args |-> ctor.args, which |-> ctor.which,
                obj |-> ctor.obj, got |-> Getters(ctor.obj)]
    /\ UNCHANGED nonCtorVars

NextCtor ==
    \/ ConstructDefault
    \/ Construct7
    \/ ConstructFull
    \/ ReadGetters

\* ------------------------------------------------ OrderExpirationEntry
MaxExpiry == 2

MaxExpIdLen == 1

MaxQueue == 3

\* class OrderExpirationEntry; the timestamps are numbers
OrderExpirationEntry(tradingPair, orderId, timestamp, expiration_timestamp) ==
    [tradingPair |-> tradingPair, orderId |-> orderId, timestamp |-> timestamp,
     expiration_timestamp |-> expiration_timestamp]

ExpirationEntries ==
    {OrderExpirationEntry(<<1>>, id, t, x) :
        id \in UNION {[1..n -> Chars] : n \in 0..MaxExpIdLen},
        t \in 1..MaxExpiry, x \in 1..MaxExpiry}

\* an operator< that looks at the orderId first
OrderExpirationLessById(a, b) ==
    IF a.orderId = b.orderId
    THEN a.expiration_timestamp < b.expiration_timestamp
    ELSE StringLess(a.orderId, b.orderId)

\* operator<(OrderExpirationEntry const &a, OrderExpirationEntry const &b)
OrderExpirationLess(a, b) ==
    IF a.expiration_timestamp = b.expiration_timestamp
    THEN StringLess(a.orderId, b.orderId)
    ELSE a.expiration_timestamp < b.expiration_timestamp

\* std::set<OrderExpirationEntry>: lower_bound, find, insert, erase by key
ExpLowerBound(s, e) ==
    IF \E i \in 1..Len(s) : ~OrderExpirationLess(s[i], e)
    THEN CHOOSE i \in 1..Len(s) :
             /\ ~OrderExpirationLess(s[i], e)
             /\ \A j \in 1..(i - 1) : OrderExpirationLess(s[j], e)
    ELSE Len(s) + 1

ExpFind(s, e) ==
    LET i == ExpLowerBound(s, e)
    IN  IF i <= Len(s) /\ ~OrderExpirationLess(e, s[i]) THEN i ELSE 0

ExpSetInsert(s, e) ==
    IF ExpFind(s, e) # 0 THEN s ELSE InsertAt(s, ExpLowerBound(s, e), e)

ExpSetErase(s, e) ==
    IF ExpFind(s, e) = 0 THEN s ELSE RemoveAt(s, ExpFind(s, e))

NoExp == [op |-> "none"]

InitExp ==
    /\ expQueue = <<>>
    /\ lastExp = NoExp

\* queue.insert(e)
ExpInsert(e) ==
    /\ Len(expQueue) < MaxQueue
    /\ expQueue' = ExpSetInsert(expQueue, e)
    /\ lastExp' = [op |-> "insert", e |-> e]
    /\ UNCHANGED nonExpVars

\* queue.erase(e)
ExpErase(e) ==
    /\ expQueue' = ExpSetErase(expQueue, e)
    /\ lastExp' = [op |-> "erase", e |-> e]
    /\ UNCHANGED nonExpVars

NextExp ==
    \/ \E e \in ExpirationEntries : ExpInsert(e)
    \/ \E e \in ExpirationEntries : ExpErase(e)

\* ------------------------------------------------------ specifications
Init == InitBook /\ InitRef /\ cmp = CmpOff /\ InitExp /\ TestOff /\ ctor = CtorOff

\* feed updates and resolver calls on one instrument
Spec == Init /\ [][NextBook]_vars

\* constructions, copies, assignments and destructions of value objects
SpecRef == Init /\ [][NextRef]_vars

\* the resolver loop runs to its end once entered
FairSpec == Spec /\ WF_vars(LoopStep)

\* feed updates and resolver calls with no mutual exclusion
SpecInterleaved == Init /\ [][NextInterleaved]_vars

\* operator< of either LimitOrder applied to two orders
InitCompare == InitBook /\ InitRef /\ InitCmp /\ InitExp /\ TestOff /\ ctor = CtorOff

SpecCmp == InitCompare /\ [][NextCmp]_vars

InitCompareHost == InitBook /\ InitRef /\ InitHost /\ InitExp /\ TestOff /\ ctor = CtorOff

\* operator< of either LimitOrder with the host answering in any way
SpecHost == InitCompareHost /\ [][NextHost]_vars

InitConstruct == InitBook /\ InitRef /\ cmp = CmpOff /\ InitExp /\ TestOff /\ InitCtor

\* a LimitOrder constructor applied to arguments, then the getters
SpecCtor == InitConstruct /\ [][NextCtor]_vars

\* insertions into and removals from an expiry queue
SpecExp == Init /\ [][NextExp]_vars

\* testOverlappingOrderBooks, stages 2 to 4
InitStages == InitBook /\ InitRef /\ cmp = CmpOff /\ InitExp /\ InitTest /\ ctor = CtorOff

SpecTest == InitStages /\ [][NextTest]_vars

\* ------------------------------------------------- notions of the claims
PricesOf(s) == {s[i].price : i \in 1..Len(s)}

MaxOf(S) == CHOOSE x \in S : \A y \in S : y <= x

MinOf(S) == CHOOSE x \in S : \A y \in S : x <= y

\* the entries of a side as a set
EntrySet(s) == {s[i] : i \in 1..Len(s)}

\* the maximum-price entry of a non-empty side, the minimum-price entry
BestBidOf(s) == CHOOSE e \in EntrySet(s) : e.price = MaxOf(PricesOf(s))

BestAskOf(s) == CHOOSE e \in EntrySet(s) : e.price = MinOf(PricesOf(s))

Without(s, e) == SelectSeq(s, LAMBDA x : x # e)

\* a resolver call has just returned
Returned == pc = "idle" /\ calls # <<>>

\* (prevBid, prevAsk) is the book before the last step; the last step was a
\* pass of the resolver loop
PassRan == Returned \/ (pc = "loop" /\ removed # <<>>)

BookCrossed(bids, asks) ==
    /\ Len(bids) # 0
    /\ Len(asks) # 0
    /\ MaxOf(PricesOf(bids)) >= MinOf(PricesOf(asks))

Notional(e) == e.amount * e.price

\* the side an update was applied to
SideOf(name) == IF name = "bid" THEN bidBook ELSE askBook

\* ------------------------------------------------------------------ C1
\* C1: at the return of a resolver call under either policy the bid side is
\* empty, or the ask side is empty, or the maximum bid price is strictly
\* below the minimum ask price.
NoCrossAtReturn ==
    Returned =>
        \/ Len(bidBook) = 0
        \/ Len(askBook) = 0
        \/ MaxOf(PricesOf(bidBook)) < MinOf(PricesOf(askBook))

\* a crossed book was resolved and both sides survive
NoCrossWitness ==
    /\ Returned
    /\ BookCrossed(callBid, callAsk)
    /\ Len(bidBook) # 0
    /\ Len(askBook) # 0

\* ------------------------------------------------------------------ C2
\* C2: every resolver call terminates; while it runs its ask iterator is
\* end() or designates an entry of the ask side, and every pass of the loop
\* that does not leave the loop removes exactly one entry.
ResolverTerminates ==
    /\ [][(pc = "loop" /\ pc' = "loop") =>
            Len(bidBook') + Len(askBook') = Len(bidBook) + Len(askBook) - 1]_vars
    /\ [](pc = "loop" => (askIterator = End \/ Holds(askBook, askIterator)))
    /\ [](pc = "loop" => <>(pc = "idle"))

\* a call on a fully crossed book has returned after draining a side
ResolverTerminatesWitness ==
    /\ Returned
    /\ Len(removed) >= 2
    /\ Len(callBid) = Len(removed) \/ Len(callAsk) = Len(removed)
    /\ Len(bidBook) = 0 \/ Len(askBook) = 0

\* ------------------------------------------------------------------ C3
\* C3: a resolver call that follows another with no update in between
\* removes nothing: the book at its return is the book at its start.
Idempotence ==
    (Returned /\ Len(calls) >= 2) =>
        /\ bidBook = callBid
        /\ askBook = callAsk
        /\ removed = <<>>

\* the second of two calls under one policy returned, the first had removed
IdempotenceWitness ==
    /\ Returned
    /\ Len(calls) = 2
    /\ calls[1].fn = calls[2].fn
    /\ calls[1].removed >= 2

\* ------------------------------------------------------------------ C4
\* C4: a pass of the notional resolver over a crossed best bid and best ask
\* removes the best ask when the bid's amount*price is strictly greater than
\* the ask's, and otherwise (equal notionals included) removes the best bid.
NotionalDecision ==
    (PassRan /\ fn = "Dex" /\ BookCrossed(prevBid, prevAsk)) =>
        LET b == BestBidOf(prevBid)
            a == BestAskOf(prevAsk)
        IN  IF Notional(b) > Notional(a)
            THEN askBook = Without(prevAsk, a) /\ bidBook = prevBid
            ELSE bidBook = Without(prevBid, b) /\ askBook = prevAsk

\* equal notionals at one price: the bid went, the ask stays
NotionalDecisionWitness ==
    /\ Returned
    /\ fn = "Dex"
    /\ Len(removed) = 1
    /\ removed[1].side = "bid"
    /\ removed[1].topBid.price = removed[1].topAsk.price
    /\ removed[1].topBid.amount = removed[1].topAsk.amount
    /\ removed[1].topBid.amount # 0
    /\ askBook = callAsk
    /\ bidBook = Without(callBid, removed[1].topBid)

\* ------------------------------------------------------------------ C5
\* C5: a pass of the recency resolver over a crossed best bid and best ask
\* removes the best ask when the bid's updateId is greater than the ask's,
\* and otherwise removes the best bid.
RecencyDecision ==
    (PassRan /\ fn = "Centralised" /\ BookCrossed(prevBid, prevAsk)) =>
        LET b == BestBidOf(prevBid)
            a == BestAskOf(prevAsk)
        IN  IF b.updateId > a.updateId
            THEN askBook = Without(prevAsk, a) /\ bidBook = prevBid
            ELSE bidBook = Without(prevBid, b) /\ askBook = prevAsk

\* a newer bid above an older ask: the ask went, the bid stays
RecencyDecisionWitness ==
    /\ Returned
    /\ fn = "Centralised"
    /\ Len(removed) = 1
    /\ removed[1].side = "ask"
    /\ removed[1].topBid.price > removed[1].topAsk.price
    /\ removed[1].topBid.updateId > removed[1].topAsk.updateId
    /\ bidBook = callBid
    /\ askBook = Without(callAsk, removed[1].topAsk)

\* ------------------------------------------------------------------ C6
\* C6 as stated: at the return of a call at most one of the two sides
\* differs from its state at the call's start.
OneSidePerCall == Returned => (bidBook = callBid \/ askBook = callAsk)

\* C6: every pass of the resolver loop removes from at most one side, and a
\* call only removes; one call may remove from both sides.
OneSidePerPass ==
    PassRan =>
        /\ bidBook = prevBid \/ askBook = prevAsk
        /\ Len(bidBook) + Len(askBook) >= Len(prevBid) + Len(prevAsk) - 1
        /\ EntrySet(bidBook) \subseteq EntrySet(prevBid)
        /\ EntrySet(askBook) \subseteq EntrySet(prevAsk)
        /\ EntrySet(bidBook) \subseteq EntrySet(callBid)
        /\ EntrySet(askBook) \subseteq EntrySet(callAsk)

\* a call that removed a bid and then an ask
OneSidePerPassWitness ==
    /\ Returned
    /\ bidBook # callBid
    /\ askBook # callAsk

\* ------------------------------------------------------------------ C7
\* C7: after an update with a non-zero amount the side holds exactly one
\* entry at the update's price, with the update's amount and updateId.
UpdateOverwrites ==
    (lastUpd.op # "none" /\ lastUpd.amount # 0) =>
        LET s == SideOf(lastUpd.side)
        IN  /\ Cardinality({i \in 1..Len(s) : s[i].price = lastUpd.price}) = 1
            /\ \A i \in 1..Len(s) :
                 s[i].price = lastUpd.price =>
                    /\ s[i].amount = lastUpd.amount
                    /\ s[i].updateId = lastUpd.updateId

\* ------------------------------------------------------------------ C8
\* C8: insertOrUpdate with amount 0 removes the entry at the price when there
\* is one and nothing else; when there is none the side is unchanged; the
\* other side is unchanged in both cases.
ZeroAmountErase ==
    (lastUpd.op = "insertOrUpdate" /\ lastUpd.amount = 0) =>
        LET keep(x) == x.price # lastUpd.price
        IN  IF lastUpd.side = "bid"
            THEN bidBook = SelectSeq(prevBid, keep) /\ askBook = prevAsk
            ELSE askBook = SelectSeq(prevAsk, keep) /\ bidBook = prevBid

\* a zero-amount update has just erased the lower of two bids, which had
\* another updateId than the update
ZeroAmountEraseWitness ==
    /\ lastUpd.op = "insertOrUpdate"
    /\ lastUpd.amount = 0
    /\ lastUpd.side = "bid"
    /\ Len(prevBid) = 2
    /\ Len(bidBook) = 1
    /\ prevBid[1].price = lastUpd.price
    /\ prevBid[1].updateId # lastUpd.updateId
    /\ bidBook[1] = prevBid[2]

\* ------------------------------------------------------------------ C9
\* C9: each side is strictly ascending by price, hence holds at most one
\* entry per price, and entries of equal price are equivalent for the set.
SidesStrictlyAscending ==
    /\ \A i \in 1..(Len(bidBook) - 1) : bidBook[i].price < bidBook[i + 1].price
    /\ \A i \in 1..(Len(askBook) - 1) : askBook[i].price < askBook[i + 1].price
    /\ \A i, j \in 1..Len(bidBook) : bidBook[i].price = bidBook[j].price => i = j
    /\ \A i, j \in 1..Len(askBook) : askBook[i].price = askBook[j].price => i = j
    /\ lastUpd.op # "none" =>
         \A e \in EntrySet(SideOf(lastUpd.side)) :
            e.price = lastUpd.price =>
               Equiv(e, OrderBookEntry(lastUpd.price, lastUpd.amount, lastUpd.updateId))

\* an insert met an entry of its price with another updateId
SidesStrictlyAscendingWitness ==
    /\ lastUpd.op = "insert"
    /\ Len(SideOf(lastUpd.side)) = 2
    /\ \E e \in EntrySet(SideOf(lastUpd.side)) :
          e.price = lastUpd.price /\ e.updateId # lastUpd.updateId

\* ----------------------------------------------------------------- C10
\* the number of live object fields that point at a handle
Owners(h) ==
    Cardinality({o \in 1..MaxOrders : orders[o].live /\ orders[o].price = h})
    + Cardinality({o \in 1..MaxOrders : orders[o].live /\ orders[o].quantity = h})
    + Cardinality({o \in 1..MaxOrders : orders[o].live /\ orders[o].filledQuantity = h})
    + Cardinality({r \in 1..MaxPyRefs : pyrefs[r].live /\ pyrefs[r].obj = h})

\* C10: the references held on each handle beyond the host's own are as many
\* as the live LimitOrder and PyRef fields that point at it; with no owner
\* left the count is back at the host's baseline.
RefCountBalance == \A h \in Handles : refcnt[h] = Baseline + Owners(h)

\* ----------------------------------------------------------------- C11
\* C11: handle validity: every handle has at least as many references
\* beyond the host's own as there are fields of live value objects pointing at
\* it, so no handle held by a live LimitOrder has been released.
HandleValidity == \A h \in Handles : refcnt[h] >= Baseline + Owners(h)

\* a LimitOrder was just destroyed while another live LimitOrder holds the
\* same handle, and the handle still counts one reference per owning field
HandleValidityWitness ==
    /\ lastRef = "LimitOrderDestroy"
    /\ \E o \in 1..MaxOrders, h \in Handles :
          /\ orders[o].live
          /\ orders[o].price = h
          /\ refcnt[h] = Baseline + Owners(h)

\* ----------------------------------------------------------------- C12
\* C12: operator< on LimitOrders is price first, clientOrderID on equal
\* prices, and of two orders with distinct clientOrderID exactly one is
\* smaller than the other, whichever implementation compares them.
LimitOrderTotality ==
    (cmp.pc = "done" /\ cmp.a.clientOrderID # cmp.b.clientOrderID) =>
        /\ cmp.ab = (\/ cmp.a.price < cmp.b.price
                     \/ /\ cmp.a.price = cmp.b.price
                        /\ StringLess(cmp.a.clientOrderID, cmp.b.clientOrderID))
        /\ cmp.ab # cmp.ba

\* ----------------------------------------------------------------- C13
\* the entries operator< has been applied to: those queued and the argument
\* of the last operation
ExpSeen ==
    EntrySet(expQueue) \cup (IF lastExp.op = "none" THEN {} ELSE {lastExp.e})

ExpEquiv(a, b) == ~OrderExpirationLess(a, b) /\ ~OrderExpirationLess(b, a)

\* C13: a < b on OrderExpirationEntry is exactly "expires earlier, or expires
\* at the same time with the lexicographically smaller orderId"; the relation
\* is a strict weak order; the first element of a queue ordered by it has the
\* minimum expiration timestamp after any insertions and removals.
ExpirationOrdering ==
    /\ \A a, b \in ExpSeen :
          OrderExpirationLess(a, b) =
              (\/ a.expiration_timestamp < b.expiration_timestamp
               \/ /\ a.expiration_timestamp = b.expiration_timestamp
                  /\ StringLess(a.orderId, b.orderId))
    /\ \A a \in ExpSeen : ~OrderExpirationLess(a, a)
    /\ \A a, b, c \in ExpSeen :
          /\ (OrderExpirationLess(a, b) /\ OrderExpirationLess(b, c))
                 => OrderExpirationLess(a, c)
          /\ (ExpEquiv(a, b) /\ ExpEquiv(b, c)) => ExpEquiv(a, c)
    /\ \A i \in 1..Len(expQueue) :
          expQueue[1].expiration_timestamp <= expQueue[i].expiration_timestamp

\* after a removal the queue holds two entries expiring together, told apart
\* by orderId, ahead of one expiring later
ExpirationOrderingWitness ==
    /\ lastExp.op = "erase"
    /\ lastExp.e \notin EntrySet(expQueue)
    /\ Len(expQueue) = 3
    /\ expQueue[1].expiration_timestamp = expQueue[2].expiration_timestamp
    /\ expQueue[2].expiration_timestamp < expQueue[3].expiration_timestamp

\* ----------------------------------------------------------------- C14
\* the book a call left and the book the loop of policy f leaves, as one value
BookNow == [bids |-> bidBook, asks |-> askBook]

Resolved(f, bids, asks) ==
    [bids |-> Resolve(f, bids, asks, <<>>).bids,
     asks |-> Resolve(f, bids, asks, <<>>).asks]

\* C14: a call of truncateOverlapEntries with a non-zero flag leaves the book
\* the notional resolver leaves from the same book, and with flag 0 the book
\* the recency resolver leaves.
PolicySelection ==
    Returned =>
        \A d \in dex :
            /\ d # 0 => BookNow = Resolved("Dex", callBid, callAsk)
            /\ d = 0 => BookNow = Resolved("Centralised", callBid, callAsk)

\* a call with a negative flag has returned from a book the two resolvers
\* leave in different states
PolicySelectionWitness ==
    /\ Returned
    /\ \E d \in dex : d < 0
    /\ Resolved("Dex", callBid, callAsk) # Resolved("Centralised", callBid, callAsk)

\* ----------------------------------------------------------------- C15
\* C15: a resolver call entered with an empty bid side, an empty ask side or
\* the highest bid strictly below the lowest ask removes nothing: while it
\* runs and when it has returned, both sides are as they were at entry.
NoCrossNoChange ==
    ((pc = "loop" \/ Returned) /\ ~BookCrossed(callBid, callAsk)) =>
        /\ removed = <<>>
        /\ bidBook = callBid
        /\ askBook = callAsk

\* a call has returned from a book with both sides non-empty and no cross
NoCrossNoChangeWitness ==
    /\ Returned
    /\ callBid # <<>>
    /\ callAsk # <<>>
    /\ MaxOf(PricesOf(callBid)) < MinOf(PricesOf(callAsk))

\* ----------------------------------------------------------------- C16
\* the resolver call of stage n has returned
StageDone(n) == stage = n /\ pending = {} /\ Returned

\* C16: in the test, the call of stage 2 removes nothing and leaves best bid
\* 100.0 and no ask; the call of stage 3 removes the bid at 101 and nothing
\* else, and leaves best bid 100.9 strictly below best ask 100.91.
ScenarioByRecency ==
    /\ StageDone(2) =>
          /\ removed = <<>>
          /\ bidBook = callBid
          /\ PricesOf(bidBook) = {9980, 9990, 10000}
          /\ MaxOf(PricesOf(bidBook)) = 10000
          /\ askBook = <<>>
    /\ StageDone(3) =>
          /\ Len(removed) = 1
          /\ removed[1].side = "bid"
          /\ removed[1].topBid.price = 10100
          /\ bidBook = Without(callBid, removed[1].topBid)
          /\ askBook = callAsk
          /\ PricesOf(bidBook) = {9980, 9990, 10000, 10010, 10090}
          /\ PricesOf(askBook) = {10091, 10200, 10300, 10400, 10500}
          /\ MaxOf(PricesOf(bidBook)) = 10090
          /\ MinOf(PricesOf(askBook)) = 10091
          /\ ~BookCrossed(bidBook, askBook)

\* the call of stage 3 has returned
ScenarioByRecencyWitness == StageDone(3) /\ Len(removed) = 1

UpdateFrame ==
    lastUpd.op = "insertOrUpdate" =>
        LET keep(x) == x.price # lastUpd.price
        IN  IF lastUpd.side = "bid"
            THEN /\ SelectSeq(bidBook, keep) = SelectSeq(prevBid, keep)
                 /\ askBook = prevAsk
            ELSE /\ SelectSeq(askBook, keep) = SelectSeq(prevAsk, keep)
                 /\ bidBook = prevBid

\* an update with a positive amount has just replaced the lower of two bids
\* while asks are stored
UpdateFrameWitness ==
    /\ lastUpd.op = "insertOrUpdate"
    /\ lastUpd.amount # 0
    /\ lastUpd.side = "bid"
    /\ Len(prevBid) = 2
    /\ Len(bidBook) = 2
    /\ prevBid[1].price = lastUpd.price
    /\ bidBook[1] # prevBid[1]
    /\ askBook # <<>>

\* ----------------------------------------------------------------- C19
\* the entries the current call has erased, in order
RemovedEntries ==
    [i \in 1..Len(removed) |->
        [side |-> removed[i].side,
         entry |-> IF removed[i].side = "bid" THEN removed[i].topBid
                                              ELSE removed[i].topAsk]]

\* the notional comparison and the updateId comparison give the same answer
\* on every bid and ask of the book
ComparisonsAgree(bids, asks) ==
    \A b \in EntrySet(bids), a \in EntrySet(asks) :
        (Notional(b) > Notional(a)) = (b.updateId > a.updateId)

\* C19: on a book where the two tie-break comparisons agree on every bid and
\* ask, the loop run with either comparison erases the same entries in the
\* same order and leaves the same book, and that is what the call did.
ResolversAgree ==
    (Returned /\ ComparisonsAgree(callBid, callAsk)) =>
        \A f \in {"Dex", "Centralised"} :
            Resolve(f, callBid, callAsk, <<>>) =
                [bids |-> bidBook, asks |-> askBook, log |-> RemovedEntries]

\* a call has returned from such a book after erasing an ask and a bid
ResolversAgreeWitness ==
    /\ Returned
    /\ ComparisonsAgree(callBid, callAsk)
    /\ \E i, j \in 1..Len(removed) :
          removed[i].side = "ask" /\ removed[j].side = "bid"

\* ----------------------------------------------------------------- C20
\* the number of entries a call has taken out of the book
Removals == (Len(callBid) + Len(callAsk)) - (Len(bidBook) + Len(askBook))

SmallerSide(bids, asks) == IF Len(bids) <= Len(asks) THEN Len(bids) ELSE Len(asks)

\* C20 as stated: a call performs at most min(|bid side|, |ask side|)
\* removals, the sizes taken when it was entered.
RemovalsWithinSmallerSide ==
    Returned => Removals <= SmallerSide(callBid, callAsk)

\* C20: a call entered with an empty side removes nothing; otherwise it
\* performs at most |bid side| + |ask side| - 1 removals, the sizes taken
\* when it was entered, one entry erased per pass through the loop.
RemovalsBounded ==
    Returned =>
        /\ Removals = Len(removed)
        /\ Len(bidBook) <= Len(callBid)
        /\ Len(askBook) <= Len(callAsk)
        /\ IF callBid = <<>> \/ callAsk = <<>>
           THEN Removals = 0
           ELSE Removals <= Len(callBid) + Len(callAsk) - 1

\* a call has drained the bid side with more removals than the ask side had
\* entries
RemovalsBoundedWitness ==
    /\ Returned
    /\ callBid # <<>>
    /\ bidBook = <<>>
    /\ Removals > SmallerSide(callBid, callAsk)
    /\ Removals = Len(callBid) + Len(callAsk) - 1

\* ----------------------------------------------------------------- C21
\* an insert ran between two passes of the call that has just returned
Interleaved == Returned /\ lastUpd.op = "insert"

\* C21: a resolver call that ran with no update interleaved returns with an
\* uncrossed book, also where other calls were interleaved with updates;
\* the witness is a call that an insert interleaved with and that returned
\* with best bid >= best ask.
ExclusionKeepsUncrossed ==
    (Returned /\ ~Interleaved) => ~BookCrossed(bidBook, askBook)

\* a call an insert interleaved with has returned with a crossed book
ExclusionKeepsUncrossedWitness ==
    /\ Interleaved
    /\ BookCrossed(bidBook, askBook)

\* ----------------------------------------------------------------- C22
\* the entries of side name the current call has erased
RemovedFrom(name) ==
    {RemovedEntries[i].entry :
        i \in {j \in 1..Len(removed) : removed[j].side = name}}

\* t is s with some of its entries taken out, the others as they were and in
\* their order
Remainder(t, s) == t = SelectSeq(s, LAMBDA x : x \in EntrySet(t))

\* C22: while a resolver call runs and when it has returned, each side is
\* the side at the call's start without the entries erased so far: nothing is
\* added and every surviving entry has the price, amount and updateId it had.
ResolverOnlyRemoves ==
    (pc = "loop" \/ Returned) =>
        /\ Remainder(bidBook, callBid)
        /\ Remainder(askBook, callAsk)
        /\ EntrySet(bidBook) = EntrySet(callBid) \ RemovedFrom("bid")
        /\ EntrySet(askBook) = EntrySet(callAsk) \ RemovedFrom("ask")

\* a call has returned after erasing an ask, with a bid and another ask
\* surviving
ResolverOnlyRemovesWitness ==
    /\ Returned
    /\ RemovedFrom("ask") # {}
    /\ bidBook # <<>>
    /\ askBook # <<>>

\* ----------------------------------------------------------------- C23
\* the last step was a pass that erased an entry
PassErased ==
    /\ PassRan
    /\ removed # <<>>
    /\ Len(bidBook) + Len(askBook) < Len(prevBid) + Len(prevAsk)

\* C23: at every iteration the bid cursor is on the maximum-price bid and
\* the ask cursor on the minimum-price ask (at end() only when no ask is
\* left); each erasing pass takes the best entry of its side at that moment;
\* every erased bid is priced above every surviving bid and every erased ask
\* below every surviving ask.
CursorsOnBest ==
    /\ pc = "loop" =>
          /\ bidBook # <<>> =>
                TopBid(bidBook).price = MaxOf(PricesOf(bidBook))
          /\ askBook # <<>> =>
                /\ askIterator # End
                /\ Deref(askBook, askIterator) = {BestAskOf(askBook)}
          /\ askBook = <<>> => askIterator = End
    /\ PassErased =>
          LET last == removed[Len(removed)]
          IN  IF last.side = "bid"
              THEN /\ last.topBid = BestBidOf(prevBid)
                   /\ bidBook = Without(prevBid, last.topBid)
              ELSE /\ last.topAsk = BestAskOf(prevAsk)
                   /\ askBook = Without(prevAsk, last.topAsk)
    /\ (pc = "loop" \/ Returned) =>
          /\ \A r \in RemovedFrom("bid"), e \in EntrySet(bidBook) : r.price > e.price
          /\ \A r \in RemovedFrom("ask"), e \in EntrySet(askBook) : r.price < e.price

\* the call is between two passes, an ask erased, the ask cursor on the next
\* ask, a bid still stored
CursorsOnBestWitness ==
    /\ pc = "loop"
    /\ PassErased
    /\ removed[Len(removed)].side = "ask"
    /\ askBook # <<>>
    /\ askIterator = askBook[1].price
    /\ bidBook # <<>>

\* ----------------------------------------------------------------- C24
\* C24: a resolver call erases crossing levels only: every erased bid is
\* priced at or above the lowest ask of the call's start and every erased ask
\* at or below its highest bid; every bid below that lowest ask and every ask
\* above that highest bid is still stored.
OnlyCrossingLevelsRemoved ==
    ((pc = "loop" \/ Returned) /\ callBid # <<>> /\ callAsk # <<>>) =>
        LET lowAsk == MinOf(PricesOf(callAsk))
            highBid == MaxOf(PricesOf(callBid))
        IN  /\ \A r \in RemovedFrom("bid") : r.price >= lowAsk
            /\ \A r \in RemovedFrom("ask") : r.price <= highBid
            /\ \A e \in EntrySet(callBid) :
                  e.price < lowAsk => e \in EntrySet(bidBook)
            /\ \A e \in EntrySet(callAsk) :
                  e.price > highBid => e \in EntrySet(askBook)

\* a call has returned with a bid erased and a bid below the lowest ask of
\* its start still stored
OnlyCrossingLevelsRemovedWitness ==
    /\ Returned
    /\ RemovedFrom("bid") # {}
    /\ callAsk # <<>>
    /\ \E e \in EntrySet(bidBook) : e.price < MinOf(PricesOf(callAsk))

\* ----------------------------------------------------------------- C25
\* C25: a resolver call entered with a bid and an ask stored never leaves
\* both sides empty, neither between two passes nor at its return.
NeverEmptiesBoth ==
    ((pc = "loop" \/ Returned) /\ callBid # <<>> /\ callAsk # <<>>) =>
        (bidBook # <<>> \/ askBook # <<>>)

\* a call entered with a bid and an ask stored has returned with one side
\* empty
NeverEmptiesBothWitness ==
    /\ Returned
    /\ callBid # <<>>
    /\ callAsk # <<>>
    /\ askBook = <<>>
    /\ bidBook # <<>>

\* ----------------------------------------------------------------- C26
\* the best bid is newer than every ask priced at or below it
BidNewest(bids, asks) ==
    \A a \in EntrySet(asks) :
        a.price <= BestBidOf(bids).price => BestBidOf(bids).updateId > a.updateId

\* the best ask is at least as new as every bid priced at or above it
AskNewest(bids, asks) ==
    \A b \in EntrySet(bids) :
        b.price >= BestAskOf(asks).price => BestAskOf(asks).updateId >= b.updateId

\* C26: truncateOverlapEntriesCentralised, entered with the best bid newer
\* than every ask at or below it, erases exactly those asks and no bid;
\* entered with the best ask at least as new as every bid at or above it, it
\* erases exactly those bids and no ask.
NewestUpdateWins ==
    (Returned /\ fn = "Centralised" /\ callBid # <<>> /\ callAsk # <<>>) =>
        /\ BidNewest(callBid, callAsk) =>
              /\ bidBook = callBid
              /\ askBook = SelectSeq(callAsk,
                     LAMBDA a : a.price > BestBidOf(callBid).price)
        /\ AskNewest(callBid, callAsk) =>
              /\ askBook = callAsk
              /\ bidBook = SelectSeq(callBid,
                     LAMBDA b : b.price < BestAskOf(callAsk).price)

\* a call has returned after erasing two bids, both as old as the best ask
NewestUpdateWinsWitness ==
    /\ Returned
    /\ fn = "Centralised"
    /\ callAsk # <<>>
    /\ Len(callBid) = 2
    /\ AskNewest(callBid, callAsk)
    /\ bidBook = <<>>
    /\ \E b \in EntrySet(callBid) : b.updateId = BestAskOf(callAsk).updateId

\* ----------------------------------------------------------------- C27
\* the orders in which the entries of a set can be inserted
InsertOrders(S) ==
    {p \in [1..Cardinality(S) -> S] :
        \A i, j \in 1..Cardinality(S) : p[i] = p[j] => i = j}

\* the side built from an empty std::set by inserting the entries in order p
RECURSIVE BuiltBy(_)
BuiltBy(p) ==
    IF Len(p) = 0 THEN <<>>
    ELSE SetInsert(BuiltBy(SubSeq(p, 1, Len(p) - 1)), p[Len(p)])

\* C27: the book a resolver call leaves, and what it erases, is what the
\* same policy leaves of a book holding the same entries inserted in any
\* other order.
InsertOrderIrrelevant ==
    Returned =>
        \A p \in InsertOrders(EntrySet(callBid)), q \in InsertOrders(EntrySet(callAsk)) :
            Resolve(fn, BuiltBy(p), BuiltBy(q), <<>>) =
                [bids |-> bidBook, asks |-> askBook, log |-> RemovedEntries]

\* a call has returned from a book with two bids and two asks after erasing
\* an entry
InsertOrderIrrelevantWitness ==
    /\ Returned
    /\ Len(callBid) = 2
    /\ Len(callAsk) = 2
    /\ removed # <<>>

\* ----------------------------------------------------------------- C28
\* C28: whatever the host answers to the comparisons of the two prices
\* (true, false or the error value -1), a < b and b < a do not both hold.
HostAsymmetry == cmp.pc = "done" => ~(cmp.ab /\ cmp.ba)

\* ----------------------------------------------------------------- C29
\* C29: the default constructor yields empty strings, isBuy false, null
\* price, quantity and filledQuantity, creationTimestamp 0, status 0 and
\* position "NIL"; the 7-argument constructor stores its seven arguments and
\* sets filledQuantity null, creationTimestamp 0, status 0, position "NIL";
\* the full constructor stores its eleven arguments; every getter returns the
\* stored field.
ConstructorsBindAllFields ==
    /\ ctor.pc \in {"built", "read"} =>
          LET a == ctor.args
              o == ctor.obj
          IN  /\ ctor.which = "default" =>
                    /\ o.clientOrderID = "" /\ o.tradingPair = ""
                    /\ o.isBuy = FALSE
                    /\ o.baseCurrency = "" /\ o.quoteCurrency = ""
                    /\ o.price = NULL /\ o.quantity = NULL
                    /\ o.filledQuantity = NULL
                    /\ o.creationTimestamp = 0 /\ o.status = 0
                    /\ o.position = "NIL"
              /\ ctor.which = "seven" =>
                    /\ o.clientOrderID = a.clientOrderID
                    /\ o.tradingPair = a.tradingPair
                    /\ o.isBuy = a.isBuy
                    /\ o.baseCurrency = a.baseCurrency
                    /\ o.quoteCurrency = a.quoteCurrency
                    /\ o.price = a.price /\ o.quantity = a.quantity
                    /\ o.filledQuantity = NULL
                    /\ o.creationTimestamp = 0 /\ o.status = 0
                    /\ o.position = "NIL"
              /\ ctor.which = "full" => o = a
    /\ ctor.pc = "read" =>
          LET o == ctor.obj
              g == ctor.got
          IN  /\ g.getClientOrderID = o.clientOrderID
              /\ g.getTradingPair = o.tradingPair
              /\ g.getIsBuy = o.isBuy
              /\ g.getBaseCurrency = o.baseCurrency
              /\ g.getQuoteCurrency = o.quoteCurrency
              /\ g.getPrice = o.price
              /\ g.getQuantity = o.quantity
              /\ g.getFilledQuantity = o.filledQuantity
              /\ g.getCreationTimestamp = o.creationTimestamp
              /\ g.getStatus = o.status
              /\ g.getPosition = o.position

\* the getters have been read on an order built by the 7-argument
\* constructor from a buy with a price and a quantity
ConstructorsBindAllFieldsWitness ==
    /\ ctor.pc = "read"
    /\ ctor.which = "seven"
    /\ ctor.args.isBuy
    /\ ctor.args.clientOrderID = "id"
    /\ ctor.got.getPrice # NULL
    /\ ctor.got.getQuantity # NULL
    /\ ctor.got.getPosition = "NIL"

====
